---------------------------- MODULE Spec2Model ----------------------------
(***************************************************************************)
(* A model of the tensor kernels of src/src/operators.rs: gather, rope,    *)
(* masked_softmax, rms_norm, swiglu, matmul_transb, dot and random_sample. *)
(*                                                                         *)
(* The kernels are stateless procedures over caller-owned tensors.  A      *)
(* state of the model is one call: the kernel and its arguments (call),    *)
(* whether the call has run (pc) and what it left behind (out).  Init      *)
(* draws the arguments from bounded sets, one action per kernel runs the   *)
(* whole call.                                                             *)
(*                                                                         *)
(* f32 values are modelled as fixed-point integers in units of 1/One, so   *)
(* 1.0 is One.  Products and quotients round towards minus infinity.       *)
(* exp, sin and cos are tabulated on a half-unit grid.  Inputs are finite  *)
(* ordinary numbers (no NaN, infinity or negative zero).  A Rust panic     *)
(* (failed assert!, out-of-range slice index, unwrap of None) ends the     *)
(* call at once: the outcome is marked panicked and keeps the writes made  *)
(* up to that point.                                                       *)
(***************************************************************************)
EXTENDS Integers, Sequences, FiniteSets, TLC

VARIABLES pc, call, out

vars == <<pc, call, out>>

\* Longest logits vector handed to random_sample.
MaxLen == 3

\* The f32 literal 1.0 in fixed point.
One == 1000

Min(a, b) == IF a <= b THEN a ELSE b

Max(a, b) == IF a >= b THEN a ELSE b

\* f32 product a * b.
FMul(a, b) == (a * b) \div One

\* f32 quotient a / b, b # 0.
FDiv(a, b) == (a * One) \div b

\* exp on the grid 0, -0.5, -1.0, ... -6.5
ExpTable == <<1000, 607, 368, 223, 135, 82, 50, 30, 18, 11, 7, 4, 2, 2>>

\* Number of half-units below which f32 exp underflows to 0.0 (about -104).
ExpUnderflowHalves == 208

\* f32::exp for a <= 0.  Between the end of the table and the underflow
\* point the result is positive and below the resolution of the fixed point:
\* it is kept as the smallest positive value.
ExpNeg(a) ==
    LET k == (0 - a) \div (One \div 2)
    IN  IF k >= ExpUnderflowHalves THEN 0
        ELSE IF k >= Len(ExpTable) THEN 1
        ELSE ExpTable[k + 1]

\* f32::exp.
Exp(a) == IF a <= 0 THEN ExpNeg(a) ELSE FDiv(One, ExpNeg(0 - a))

\* A tensor: shape and row-major data.
Tensor(shape, data) == [shape |-> shape, data |-> data]

\* Tensor::size
Size(t) == Len(t.data)

RECURSIVE Product(_)
Product(s) == IF s = <<>> THEN 1 ELSE Head(s) * Product(Tail(s))

\* data[i], 0-based as in the source.
At(d, i) == d[i + 1]

\* All sequences of length n over S.
SeqsOf(S, n) == [1..n -> S]

\* The data (a * i + b) * 1.0 for i = 1..n.
Ramp(n, a, b) == [i \in 1..n |-> (a * i + b) * One]

\* ------------------------------------------------------------ random_sample

\* The fold step of Iterator::max_by: the later element wins unless the
\* earlier one compares Greater.  An element is <<index, value>>.
MaxByStepFirst(best, e) == IF best[2] >= e[2] THEN best ELSE e

MaxByStep(best, e) == IF best[2] > e[2] THEN best ELSE e

RECURSIVE MaxByFrom(_, _, _)
MaxByFrom(d, i, best) ==
    IF i >= Len(d) THEN best
    ELSE MaxByFrom(d, i + 1, MaxByStep(best, <<i, At(d, i)>>))

\* x.data().iter().enumerate().max_by(..).unwrap().0 on a non-empty vector.
ArgMax(d) == MaxByFrom(d, 1, <<0, At(d, 0)>>)[1]

\* Probability::cmp as -1 (Less), 0 (Equal), 1 (Greater).
ProbCmpTieDesc(a, b) ==
    IF a.val = b.val
    THEN (IF a.tok > b.tok THEN -1 ELSE IF a.tok < b.tok THEN 1 ELSE 0)
    ELSE (IF a.val < b.val THEN 1 ELSE -1)

ProbCmp(a, b) ==
    IF a.val = b.val
    THEN (IF a.tok < b.tok THEN -1 ELSE IF a.tok > b.tok THEN 1 ELSE 0)
    ELSE (IF a.val < b.val THEN 1 ELSE -1)

\* Insert p into s, which is ascending under ProbCmp.
RECURSIVE Insert(_, _)
Insert(p, s) ==
    IF s = <<>> THEN <<p>>
    ELSE IF ProbCmp(p, Head(s)) < 0 THEN <<p>> \o s
    ELSE <<Head(s)>> \o Insert(p, Tail(s))

\* logits.sort_unstable(): Probability::cmp is a total order under which no
\* two elements of the vector are Equal (the toks differ), so the sorted
\* vector does not depend on the algorithm.
RECURSIVE SortFrom(_, _, _)
SortFrom(d, i, acc) ==
    IF i >= Len(d) THEN acc
    ELSE SortFrom(d, i + 1, Insert([val |-> At(d, i), tok |-> i], acc))

Sorted(d) == SortFrom(d, 0, <<>>)

\* The softmax & sum loop: the running sums, seeded with 1.0.
RECURSIVE CumFrom(_, _, _, _, _)
CumFrom(s, max, temperature, i, acc) ==
    IF i >= Len(s) THEN acc
    ELSE CumFrom(s, max, temperature, i + 1,
                 Append(acc, At(acc, i - 1)
                             + Exp(FDiv(At(s, i).val - max, temperature))))

Cumulative(s, temperature) == CumFrom(s, At(s, 0).val, temperature, 1, <<One>>)

\* The index pk is read at.
PkIndexAll(top_k, n) == n - 1

PkIndexOff(top_k, n) == Min(top_k, n)

PkIndex(top_k, n) == Min(top_k, n) - 1

\* logits.iter().find(|p| p.val >= plimit): the position, or Len(cum).
RECURSIVE FindFrom(_, _, _)
FindFrom(cum, plimit, i) ==
    IF i >= Len(cum) THEN i
    ELSE IF At(cum, i) >= plimit THEN i
    ELSE FindFrom(cum, plimit, i + 1)

\* The stochastic path, given the draw r of rand::random::<f32>().
Stochastic(d, top_p, top_k, temperature, r) ==
    IF Len(d) = 0 THEN [panicked |-> TRUE]
    ELSE
    LET s == Sorted(d)
        cum == Cumulative(s, temperature)
        ik == PkIndex(top_k, Len(s))
    IN  IF ik >= Len(s) THEN [panicked |-> TRUE]
        ELSE
        LET pk == At(cum, ik)
            pp == FMul(At(cum, Len(s) - 1), top_p)
            plimit == FMul(r, Min(pk, pp))
            pos == FindFrom(cum, plimit, 0)
        IN  IF pos >= Len(s) THEN [panicked |-> TRUE]
            ELSE [panicked |-> FALSE, val |-> At(s, pos).tok, r |-> r]

Degenerate(temperature, top_k, top_p) ==
    temperature <= 0 \/ top_k < 2 \/ top_p <= 0

random_sample(x, top_p, top_k, temperature, r) ==
    IF x.shape = <<>> \/ x.shape[Len(x.shape)] # Size(x)
    THEN [panicked |-> TRUE]
    ELSE IF Degenerate(temperature, top_k, top_p)
    THEN IF Size(x) = 0 THEN [panicked |-> TRUE]
         ELSE [panicked |-> FALSE, val |-> ArgMax(x.data)]
    ELSE Stochastic(x.data, top_p, top_k, temperature, r)

\* ------------------------------------------------------------ outcomes

\* What a kernel that writes y leaves behind: y's data, how often each
\* element was written, and whether the call panicked.
Start(y) == [y |-> y.data, writes |-> [i \in 1..Size(y) |-> 0],
             panicked |-> FALSE]

Panic(st) == [st EXCEPT !.panicked = TRUE]

\* data[i] = v on the output; an index out of range panics.
Write(st, i, v) ==
    IF i < 0 \/ i >= Len(st.y) THEN Panic(st)
    ELSE [st EXCEPT !.y[i + 1] = v, !.writes[i + 1] = @ + 1]

InRange(d, i) == 0 <= i /\ i < Len(d)

\* ------------------------------------------------------------ gather

GatherAsserts(y, indices, table) ==
    /\ Len(table.shape) = 2
    /\ Size(y) = Size(indices) * table.shape[2]

\* Where row i of the output is copied from.
SrcStartOwn(indices, i, dim) == i * dim

SrcStart(indices, i, dim) == At(indices.data, i) * dim

\* dst.copy_from_slice(src): elements j.. of the row.
RECURSIVE CopyRow(_, _, _, _, _, _)
CopyRow(st, table, src, dst, j, dim) ==
    IF j >= dim \/ st.panicked THEN st
    ELSE CopyRow(Write(st, dst + j, At(table.data, src + j)),
                 table, src, dst, j + 1, dim)

RECURSIVE GatherLoop(_, _, _, _, _)
GatherLoop(st, indices, table, i, dim) ==
    IF i >= Size(indices) \/ st.panicked THEN st
    ELSE LET src == SrcStart(indices, i, dim)
         IN  IF src + dim > Size(table) \/ i * dim + dim > Len(st.y)
             THEN Panic(st)
             ELSE GatherLoop(CopyRow(st, table, src, i * dim, 0, dim),
                             indices, table, i + 1, dim)

gather(y, indices, table) ==
    IF ~GatherAsserts(y, indices, table) \/ Len(table.shape) < 2
    THEN Panic(Start(y))
    ELSE GatherLoop(Start(y), indices, table, 0, table.shape[2])

\* ------------------------------------------------------------ rope

\* sin and cos on the grid 0, 0.5, 1.0, ... 6.0 radians.
SinTable == <<0, 479, 841, 997, 909, 598, 141, -351, -757, -978, -959,
              -706, -279>>

CosTable == <<1000, 878, 540, 71, -416, -801, -990, -936, -654, -211, 284,
              709, 960>>

\* f32::sin_cos; beyond the table the angle wraps.
SinCos(freq) ==
    LET k == (freq \div (One \div 2)) % Len(SinTable)
    IN  [sin |-> SinTable[k + 1], cos |-> CosTable[k + 1]]

\* The largest r in lo..hi with r * r <= x.
RECURSIVE RootIn(_, _, _)
RootIn(x, lo, hi) ==
    IF lo >= hi THEN lo
    ELSE LET mid == (lo + hi + 1) \div 2
         IN  IF mid * mid <= x THEN RootIn(x, mid, hi)
             ELSE RootIn(x, lo, mid - 1)

\* The square root of x, x in units of 1/One^2, in units of 1/One.
Sqrt2(x) == RootIn(x, 0, 46340)

\* theta.powf(num / den) for the exponents 0, 1/2 and 1 that head
\* dimensions up to 4 produce.
Powf(theta, num, den) ==
    IF num = 0 THEN One
    ELSE IF 2 * num = den THEN Sqrt2(theta * One)
    ELSE theta

RopeAsserts(y) == Len(y.shape) = 3

\* freq = pos as f32 / theta.powf((i * 2) as f32 / d as f32)
Freq(pos, theta, i, d) == FDiv(pos * One, Powf(theta, i * 2, d))

\* The new second element of a pair: a and b are the values read before
\* the pair was written, a2 is the first element's new value.
NewBFromNewA(a, b, a2, sc) == FMul(b, sc.cos) + FMul(a2, sc.sin)

NewB(a, b, a2, sc) == FMul(b, sc.cos) + FMul(a, sc.sin)

\* The body of the innermost loop.
RopePair(st, base, i, d, sc) ==
    LET a == At(st.y, base + i)
        b == At(st.y, base + i + d \div 2)
        a2 == FMul(a, sc.cos) - FMul(b, sc.sin)
    IN  Write(Write(st, base + i, a2),
              base + i + d \div 2, NewB(a, b, a2, sc))

\* The three loops, flattened: step n is (tok, head, i).
RECURSIVE RopeLoop(_, _, _, _, _, _, _)
RopeLoop(st, n, seq_len, n_heads, d, start_pos, theta) ==
    LET half == d \div 2
    IN  IF n >= seq_len * n_heads * half THEN st
        ELSE LET tok == n \div (n_heads * half)
                 head == (n \div half) % n_heads
                 i == n % half
             IN  RopeLoop(RopePair(st, tok * n_heads * d + head * d, i, d,
                                   SinCos(Freq(start_pos + tok, theta, i, d))),
                          n + 1, seq_len, n_heads, d, start_pos, theta)

rope(y, start_pos, theta) ==
    IF ~RopeAsserts(y) \/ Len(y.shape) < 3 THEN Panic(Start(y))
    ELSE RopeLoop(Start(y), 0, y.shape[1], y.shape[2], y.shape[3],
                  start_pos, theta)

\* ------------------------------------------------------------ masked_softmax

SoftmaxAsserts(y) == Len(y.shape) >= 2

\* The number of visible columns of query row i.
BoundaryOwn(total_seq_len, seq_len, i) == i + 1

Boundary(total_seq_len, seq_len, i) == total_seq_len - seq_len + i + 1

\* data[offset..offset + boundary].iter().fold(data[offset], f32::max)
RECURSIVE FoldMax(_, _, _, _, _)
FoldMax(d, offset, boundary, j, acc) ==
    IF j >= boundary THEN acc
    ELSE FoldMax(d, offset, boundary, j + 1, Max(acc, At(d, offset + j)))

\* data[offset + j] = exp(data[offset + j] - max), for j in 0..boundary.
RECURSIVE ExpRow(_, _, _, _, _)
ExpRow(st, offset, boundary, j, max) ==
    IF j >= boundary THEN st
    ELSE ExpRow(Write(st, offset + j, Exp(At(st.y, offset + j) - max)),
                offset, boundary, j + 1, max)

RECURSIVE SumRow(_, _, _, _)
SumRow(d, offset, boundary, j) ==
    IF j >= boundary THEN 0
    ELSE At(d, offset + j) + SumRow(d, offset, boundary, j + 1)

\* data[offset + j] /= sum, for j in 0..boundary.
RECURSIVE DivRow(_, _, _, _, _)
DivRow(st, offset, boundary, j, sum) ==
    IF j >= boundary THEN st
    ELSE DivRow(Write(st, offset + j, FDiv(At(st.y, offset + j), sum)),
                offset, boundary, j + 1, sum)

\* data[offset + j] = 0.0, for j in boundary..total_seq_len.
RECURSIVE ZeroRow(_, _, _, _)
ZeroRow(st, offset, j, total_seq_len) ==
    IF j >= total_seq_len THEN st
    ELSE ZeroRow(Write(st, offset + j, 0), offset, j + 1, total_seq_len)

SoftmaxRow(st, offset, boundary, total_seq_len) ==
    LET max == FoldMax(st.y, offset, boundary, 0, At(st.y, offset))
        e == ExpRow(st, offset, boundary, 0, max)
        sum == SumRow(e.y, offset, boundary, 0)
    IN  ZeroRow(DivRow(e, offset, boundary, 0, sum), offset, boundary,
                total_seq_len)

\* The two loops, flattened: row n is (b, i).
RECURSIVE SoftmaxLoop(_, _, _, _, _)
SoftmaxLoop(st, n, batch, seq_len, total_seq_len) ==
    IF n >= batch * seq_len THEN st
    ELSE LET b == n \div seq_len
             i == n % seq_len
             offset == b * seq_len * total_seq_len + i * total_seq_len
         IN  SoftmaxLoop(SoftmaxRow(st, offset,
                                    Boundary(total_seq_len, seq_len, i),
                                    total_seq_len),
                         n + 1, batch, seq_len, total_seq_len)

masked_softmax(y) ==
    IF ~SoftmaxAsserts(y) \/ Len(y.shape) < 2 THEN Panic(Start(y))
    ELSE LET seq_len == y.shape[Len(y.shape) - 1]
             total_seq_len == y.shape[Len(y.shape)]
         IN  SoftmaxLoop(Start(y), 0,
                         Size(y) \div (seq_len * total_seq_len),
                         seq_len, total_seq_len)

\* ------------------------------------------------------------ rms_norm

RmsAsserts(y, x, w) == Size(y) = Size(x) /\ Size(y) = Size(w)

\* sum += _x[i] * _x[i], in units of 1/One^2; -1 when an index is out of
\* range.
RECURSIVE SumSquares(_, _, _)
SumSquares(x, i, len) ==
    IF i >= len THEN 0
    ELSE IF ~InRange(x.data, i) THEN -1
    ELSE LET rest == SumSquares(x, i + 1, len)
         IN  IF rest < 0 THEN -1 ELSE At(x.data, i) * At(x.data, i) + rest

\* _y[i] = _w[i] * _x[i] / rms
RECURSIVE ScaleLoop(_, _, _, _, _, _)
ScaleLoop(st, x, w, rms, i, len) ==
    IF i >= len \/ st.panicked THEN st
    ELSE IF ~InRange(x.data, i) \/ ~InRange(w.data, i) THEN Panic(st)
    ELSE ScaleLoop(Write(st, i, FDiv(FMul(At(w.data, i), At(x.data, i)), rms)),
                   x, w, rms, i + 1, len)

\* epsilon is in units of 1/One^2: 1e-6 is 1.
rms_norm(y, x, w, epsilon) ==
    IF ~RmsAsserts(y, x, w) THEN Panic(Start(y))
    ELSE LET len == Size(y)
             sum == SumSquares(x, 0, len)
         IN  IF sum < 0 THEN Panic(Start(y))
             ELSE ScaleLoop(Start(y), x, w, Sqrt2(sum \div len + epsilon),
                            0, len)

\* ------------------------------------------------------------ swiglu

SwigluAssertsNone(y, x) == TRUE

SwigluAsserts(y, x) == Size(y) = Size(x)

\* _y[i] *= _x[i] / (1. + (-_x[i]).exp())
RECURSIVE SwigluLoop(_, _, _, _)
SwigluLoop(st, x, i, len) ==
    IF i >= len \/ st.panicked THEN st
    ELSE IF ~InRange(x.data, i) THEN Panic(st)
    ELSE LET xi == At(x.data, i)
         IN  SwigluLoop(Write(st, i, FMul(At(st.y, i),
                                          FDiv(xi, One + Exp(0 - xi)))),
                        x, i + 1, len)

swiglu(y, x) ==
    IF ~SwigluAsserts(y, x) THEN Panic(Start(y))
    ELSE SwigluLoop(Start(y), x, 0, Size(y))

\* ------------------------------------------------------------ matmul_transb

MatmulAsserts(c, a, b) ==
    /\ Len(c.shape) = 2
    /\ Len(a.shape) = 2
    /\ Len(b.shape) = 2
    /\ c.shape[1] = a.shape[1]
    /\ c.shape[2] = b.shape[1]
    /\ a.shape[2] = b.shape[2]

\* The element of B that multiplies A[i, l] for the cell (i, j).
BIndexPlain(j, l, k, n) == l * n + j

BIndex(j, l, k, n) == j * k + l

\* sum += _a[i * k + l] * _b[j * k + l], for l in 0..k
RECURSIVE RowDot(_, _, _, _, _, _, _)
RowDot(a, b, i, j, l, k, n) ==
    IF l >= k THEN 0
    ELSE FMul(At(a.data, i * k + l), At(b.data, BIndex(j, l, k, n)))
         + RowDot(a, b, i, j, l + 1, k, n)

\* The two outer loops, flattened: cell q is (i, j).
RECURSIVE MatmulLoop(_, _, _, _, _, _, _, _, _)
MatmulLoop(st, beta, a, b, alpha, q, m, n, k) ==
    IF q >= m * n \/ st.panicked THEN st
    ELSE LET i == q \div n
             j == q % n
         IN  MatmulLoop(Write(st, i * n + j,
                              FMul(beta, At(st.y, i * n + j))
                              + FMul(alpha, RowDot(a, b, i, j, 0, k, n))),
                        beta, a, b, alpha, q + 1, m, n, k)

matmul_transb(c, beta, a, b, alpha) ==
    IF ~MatmulAsserts(c, a, b) THEN Panic(Start(c))
    ELSE MatmulLoop(Start(c), beta, a, b, alpha, 0, c.shape[1], c.shape[2],
                    a.shape[2])

\* ------------------------------------------------------------ dot

DotAsserts(x, y) == Size(x) = Size(y)

RECURSIVE DotSum(_, _, _, _)
DotSum(x, y, i, len) ==
    IF i >= len THEN 0
    ELSE FMul(At(x.data, i), At(y.data, i)) + DotSum(x, y, i + 1, len)

dot(x, y) ==
    IF ~DotAsserts(x, y) THEN [panicked |-> TRUE]
    ELSE [panicked |-> FALSE, val |-> DotSum(x, y, 0, Size(x))]

\* ------------------------------------------------------------ the arguments

\* Rows, columns and index-list length of gather; rows and columns of the
\* matmul_transb operands.
MaxDim == 2

\* Vector length of swiglu, dot and rms_norm.
MaxVec == 3

\* Sequence length, head count and start position of rope.
MaxSeq == 2

\* Element count of a masked_softmax tensor.
MaxCells == 8

\* A call that has not run yet.
Ready == pc = "ready" /\ out = [panicked |-> FALSE]

\* Prior contents of an output the kernel overwrites.
Fill(n, v) == [i \in 1..n |-> v]

\* Logit values: close ones, and one far enough below for exp to underflow.
LogitVals == {0 - 300 * One, 0, One, 2 * One}

TopPs == {0 - One, 0, One \div 2, One, One + One \div 2}

Temperatures == {0 - One, 0, One \div 2, One, 2 * One}

\* Values of rand::random::<f32>(): uniform in [0, 1).
Draws == {0, (2 * One) \div 5, (4 * One) \div 5, One - 1}

InitSample ==
    /\ Ready
    /\ \E n \in 0..MaxLen :
       \E sh \in {<<n>>, <<1, n>>, <<n, 1>>}, d \in SeqsOf(LogitVals, n),
          p \in TopPs, k \in 0..(MaxLen + 1), t \in Temperatures :
           call = [fn |-> "random_sample", x |-> Tensor(sh, d), top_p |-> p,
                   top_k |-> k, temperature |-> t]

\* Tables of rank 2, 1 and 3; index lists with values up to the row count
\* (one past the last row); outputs of every size.
InitGather ==
    /\ Ready
    /\ \E r \in 1..MaxDim, c \in 1..MaxDim, k \in {0, 3}, n \in 0..MaxDim,
          m \in 0..(MaxDim * MaxDim), v \in {0, 0 - One} :
       \E sh \in {<<r, c>>, <<r * c>>, <<1, r, c>>},
          ix \in SeqsOf(0..MaxDim, n) :
           call = [fn |-> "gather", y |-> Tensor(<<m>>, Fill(m, v)),
                   indices |-> Tensor(<<n>>, ix),
                   table |-> Tensor(sh, Ramp(r * c, 1, k))]

HeadDims == 1..4

Thetas == {One, 4 * One}

\* Zeros, a ramp, an alternating ramp, and a single non-zero element first
\* or last.
RopeData(n) ==
    {Fill(n, 0), Ramp(n, 1, 0),
     [i \in 1..n |-> IF i % 2 = 0 THEN i * One ELSE 0 - i * One],
     [i \in 1..n |-> IF i = 1 THEN 2 * One ELSE 0],
     [i \in 1..n |-> IF i = n THEN 3 * One ELSE 0]}

InitRope ==
    /\ Ready
    /\ \E s \in 1..MaxSeq, h \in 1..MaxSeq, hd \in HeadDims, p \in 0..MaxSeq,
          th \in Thetas :
       \E sh \in {<<s, h, hd>>, <<s * h, hd>>, <<1, s, h, hd>>},
          d \in RopeData(s * h * hd) :
           call = [fn |-> "rope", y |-> Tensor(sh, d), start_pos |-> p,
                   theta |-> th]

\* Scores: close ones, and one far enough below for exp to underflow.
ScoreVals == {0 - 300 * One, 0, One}

\* (.., query_len, total_key_len) with total_key_len >= query_len, up to two
\* keys of prior context and an optional leading batch axis; and rank 1.
InitSoftmax ==
    /\ Ready
    /\ \E q \in 1..MaxCells, c \in 0..2 :
       \E sh \in {<<q, q + c>>, <<2, q, q + c>>, <<q * (q + c)>>} :
           /\ Product(sh) <= MaxCells
           /\ \E d \in SeqsOf(ScoreVals, Product(sh)) :
                  call = [fn |-> "masked_softmax", y |-> Tensor(sh, d)]

VecData(n) == {Ramp(n, 1, 0), Ramp(n, 1, 1), Ramp(n, 0 - 2, 3)}

\* Vectors of shape [n] and [1, n].
Vectors ==
    UNION {{Tensor(sh, d) : sh \in {<<n>>, <<1, n>>}, d \in VecData(n)}
           : n \in 1..MaxVec}

\* 1e-6 and 1e-2, in units of 1/One^2.
Epsilons == {1, 10000}

\* The call of test_rms_norm.
RmsTestCall ==
    [fn |-> "rms_norm", y |-> Tensor(<<2, 2>>, Ramp(4, 1, 0)),
     x |-> Tensor(<<2, 2>>, Ramp(4, 1, 0)), w |-> Tensor(<<2>>, Ramp(2, 1, 0)),
     epsilon |-> 1]

RmsMatrices ==
    {Tensor(<<2, 2>>, d) :
        d \in {Ramp(4, 1, 0), Ramp(4, 0, 2), Ramp(4, 0 - 1, 0)}}

InitRmsNorm ==
    /\ Ready
    /\ \/ call = RmsTestCall
       \/ \E y \in Vectors \cup RmsMatrices, x \in Vectors \cup RmsMatrices,
             w \in {v \in Vectors \cup RmsMatrices : Len(v.shape) = 1},
             e \in Epsilons :
              call = [fn |-> "rms_norm", y |-> y, x |-> x, w |-> w,
                      epsilon |-> e]

InitSwiglu ==
    /\ Ready
    /\ \E y \in Vectors, x \in Vectors :
           call = [fn |-> "swiglu", y |-> y, x |-> x]

InitDot ==
    /\ Ready
    /\ \E x \in Vectors, y \in Vectors :
           call = [fn |-> "dot", x |-> x, y |-> y]

\* Shapes of rank 2 and 1, and one of rank 3.
MatShapes ==
    UNION {{<<r, c>>, <<r * c>>} : r \in 1..MaxDim, c \in 1..MaxDim}
    \cup {<<1, 1, 2>>}

Scalars == {0, One, 0 - 2 * One}

\* The call of test_matmul_transb.
MatmulTestCall ==
    [fn |-> "matmul_transb", c |-> Tensor(<<2, 2>>, Ramp(4, 1, 0)),
     beta |-> One, a |-> Tensor(<<2, 3>>, Ramp(6, 1, 0)),
     b |-> Tensor(<<2, 3>>, Ramp(6, 1, 0)), alpha |-> One]

InitMatmul ==
    /\ Ready
    /\ \/ call = MatmulTestCall
       \/ \E cs \in MatShapes, as \in MatShapes, bs \in MatShapes,
             cd \in {1, 0 - 1}, bd \in {1, 0 - 2},
             beta \in Scalars, alpha \in Scalars :
              call = [fn |-> "matmul_transb",
                      c |-> Tensor(cs, Ramp(Product(cs), cd, 0)),
                      beta |-> beta,
                      a |-> Tensor(as, Ramp(Product(as), 1, 0)),
                      b |-> Tensor(bs, Ramp(Product(bs), bd, 1)),
                      alpha |-> alpha]

\* ------------------------------------------------------------ the calls

Done(result) == pc' = "done" /\ out' = result /\ UNCHANGED call

Gather ==
    /\ pc = "ready"
    /\ call.fn = "gather"
    /\ Done(gather(call.y, call.indices, call.table))

Rope ==
    /\ pc = "ready"
    /\ call.fn = "rope"
    /\ Done(rope(call.y, call.start_pos, call.theta))

MaskedSoftmax ==
    /\ pc = "ready"
    /\ call.fn = "masked_softmax"
    /\ Done(masked_softmax(call.y))

RmsNorm ==
    /\ pc = "ready"
    /\ call.fn = "rms_norm"
    /\ Done(rms_norm(call.y, call.x, call.w, call.epsilon))

Swiglu ==
    /\ pc = "ready"
    /\ call.fn = "swiglu"
    /\ Done(swiglu(call.y, call.x))

MatmulTransb ==
    /\ pc = "ready"
    /\ call.fn = "matmul_transb"
    /\ Done(matmul_transb(call.c, call.beta, call.a, call.b, call.alpha))

Dot ==
    /\ pc = "ready"
    /\ call.fn = "dot"
    /\ Done(dot(call.x, call.y))

Sample ==
    /\ pc = "ready"
    /\ call.fn = "random_sample"
    /\ \E r \in Draws :
           Done(random_sample(call.x, call.top_p, call.top_k,
                              call.temperature, r))

SpecGather == InitGather /\ [][Gather]_vars

SpecRope == InitRope /\ [][Rope]_vars

SpecSoftmax == InitSoftmax /\ [][MaskedSoftmax]_vars

SpecRmsNorm == InitRmsNorm /\ [][RmsNorm]_vars

SpecMatmul == InitMatmul /\ [][MatmulTransb]_vars

SpecSample == InitSample /\ [][Sample]_vars

Init ==
    \/ InitGather
    \/ InitRope
    \/ InitSoftmax
    \/ InitRmsNorm
    \/ InitSwiglu
    \/ InitMatmul
    \/ InitDot
    \/ InitSample

Next ==
    \/ Gather
    \/ Rope
    \/ MaskedSoftmax
    \/ RmsNorm
    \/ Swiglu
    \/ MatmulTransb
    \/ Dot
    \/ Sample

Spec == Init /\ [][Next]_vars

\* ------------------------------------------------------------ the claims

\* A finished random_sample call on a non-empty vector whose shape passes
\* the assert of line 155.
SampleDone ==
    /\ pc = "done"
    /\ call.fn = "random_sample"
    /\ Size(call.x) > 0
    /\ call.x.shape[Len(call.x.shape)] = Size(call.x)

GreedyDone ==
    SampleDone /\ Degenerate(call.temperature, call.top_k, call.top_p)

StochasticDone ==
    SampleDone /\ ~Degenerate(call.temperature, call.top_k, call.top_p)

\* The indices holding the maximum of d.
MaxIndices(d) == {i \in 0..(Len(d) - 1) :
                     \A j \in 0..(Len(d) - 1) : At(d, j) <= At(d, i)}

LowestOf(S) == CHOOSE i \in S : \A j \in S : i <= j

HighestOf(S) == CHOOSE i \in S : \A j \in S : j <= i

\* C1 as stated: on the degenerate path random_sample returns the index of
\* the maximum logit, and among several maxima the first (lowest) index.
C1_GreedyFirstMax ==
    GreedyDone =>
        /\ ~out.panicked
        /\ out.val = LowestOf(MaxIndices(call.x.data))

\* C1 amended: on the degenerate path random_sample returns the index of the
\* maximum logit whatever the other two parameters are, and among several
\* maxima the last (highest) index.
C1_GreedyLastMax ==
    GreedyDone =>
        /\ ~out.panicked
        /\ out.val = HighestOf(MaxIndices(call.x.data))

C1_Witness ==
    /\ GreedyDone
    /\ call.temperature > 0
    /\ call.top_p > 0
    /\ Cardinality(MaxIndices(call.x.data)) >= 2
    /\ out.val = HighestOf(MaxIndices(call.x.data))
    /\ out.val # LowestOf(MaxIndices(call.x.data))

\* The position of token tok in the sorted order s.
PosOf(s, tok) == CHOOSE q \in 0..(Len(s) - 1) : At(s, q).tok = tok

\* The temperature-scaled softmax weight of position q of the sorted order.
Weight(s, temperature, q) ==
    Exp(FDiv(At(s, q).val - At(s, 0).val, temperature))

\* The weight of the positions before p.
RECURSIVE MassBefore(_, _, _)
MassBefore(s, temperature, p) ==
    IF p = 0 THEN 0
    ELSE MassBefore(s, temperature, p - 1) + Weight(s, temperature, p - 1)

\* C3: on the stochastic path with top_p <= 1 the returned token is within
\* the first min(top_k, length) positions of the sorted order, and the
\* weight before it is strictly below top_p times the total weight.
C3_InTopKAndNucleus ==
    (StochasticDone /\ call.top_p <= One) =>
        /\ ~out.panicked
        /\ LET s == Sorted(call.x.data)
               t == call.temperature
               p == PosOf(s, out.val)
           IN  /\ p < Min(call.top_k, Len(s))
               /\ MassBefore(s, t, p) * One
                      < call.top_p * MassBefore(s, t, Len(s))

\* The truncation decides: the draw alone would have reached further.
C3_Witness ==
    /\ StochasticDone
    /\ call.top_p < One
    /\ call.top_k < Size(call.x)
    /\ out.r = One - 1
    /\ LET s == Sorted(call.x.data)
       IN  /\ PosOf(s, out.val) = 1
           /\ Weight(s, call.temperature, 2) > 0

\* C4: the pairs are ordered by descending value, equal values by ascending
\* index; the running sums start at 1.0 and never decrease; the result is
\* the token of the first position whose running sum is >= plimit =
\* r * min(pk, pp), hence a function of the arguments and r; for r = 0 it
\* is the lowest index of the maximum logit.
C4_SortedCumulativeFirst ==
    StochasticDone =>
        LET d == call.x.data
            s == Sorted(d)
            n == Len(d)
            cum == Cumulative(s, call.temperature)
            pk == At(cum, Min(call.top_k, n) - 1)
            pp == FMul(At(cum, n - 1), call.top_p)
            plimit == FMul(out.r, Min(pk, pp))
        IN  /\ Len(s) = n
            /\ \A i \in 0..(n - 1) : At(s, i).val = At(d, At(s, i).tok)
            /\ \A i, j \in 0..(n - 1) :
                   i < j => \/ At(s, i).val > At(s, j).val
                            \/ /\ At(s, i).val = At(s, j).val
                               /\ At(s, i).tok < At(s, j).tok
            /\ At(cum, 0) = One
            /\ \A i \in 1..(n - 1) : At(cum, i - 1) <= At(cum, i)
            /\ ~out.panicked
            /\ \E p \in 0..(n - 1) :
                   /\ At(cum, p) >= plimit
                   /\ \A q \in 0..(p - 1) : At(cum, q) < plimit
                   /\ out.val = At(s, p).tok
            /\ out.r = 0 => out.val = LowestOf(MaxIndices(d))

C4_Witness ==
    /\ StochasticDone
    /\ out.r = 0
    /\ Cardinality(MaxIndices(call.x.data)) >= 2
    /\ out.val = LowestOf(MaxIndices(call.x.data))

\* C10: the stochastic path never panics on a non-empty vector, for every
\* top_k >= 2, temperature > 0, top_p > 0 (also above 1) and every draw, and
\* returns an index in [0, length).
C10_StochasticReturns ==
    StochasticDone =>
        /\ ~out.panicked
        /\ out.val \in 0..(Size(call.x) - 1)

C10_Witness ==
    /\ StochasticDone
    /\ call.top_p > One
    /\ call.top_k > Size(call.x)
    /\ out.r = One - 1
    /\ ~out.panicked
    /\ out.val = Size(call.x) - 1

\* The cells 0..n-1 of a tensor's data.
Cells(d) == 0..(Len(d) - 1)

\* C6: gather on a rank-2 table with every index below the row count and
\* y.size() = indices.size() * dim returns with row i of y equal to table
\* row indices[i], every element of y written (so nothing of its prior
\* contents is left); with y.size() # indices.size() * dim the call fails.
C6_GatherRows ==
    (pc = "done" /\ call.fn = "gather" /\ Len(call.table.shape) = 2) =>
        LET rows == call.table.shape[1]
            dim == call.table.shape[2]
            ix == call.indices.data
        IN  /\ Size(call.y) # Len(ix) * dim =>
                   out.panicked /\ out.y = call.y.data
            /\ (/\ Size(call.y) = Len(ix) * dim
                /\ \A i \in Cells(ix) : At(ix, i) < rows) =>
                   /\ ~out.panicked
                   /\ \A i \in Cells(ix) : \A c \in 0..(dim - 1) :
                          At(out.y, i * dim + c)
                              = At(call.table.data, At(ix, i) * dim + c)
                   /\ \A e \in Cells(out.y) : At(out.writes, e) = 1

C6_Witness ==
    /\ pc = "done"
    /\ call.fn = "gather"
    /\ ~out.panicked
    /\ call.table.shape = <<2, 2>>
    /\ call.indices.data = <<1, 0>>
    /\ out.y = <<At(call.table.data, 2), At(call.table.data, 3),
                 At(call.table.data, 0), At(call.table.data, 1)>>
    /\ out.y # call.y.data

\* The element (i, j) of a rank-2 tensor.
Cell(t, i, j) == At(t.data, i * t.shape[2] + j)

\* The sum over l in [0, k) of A[i, l] * B[j, l].
RECURSIVE SumAB(_, _, _, _, _)
SumAB(a, b, i, j, k) ==
    IF k = 0 THEN 0
    ELSE SumAB(a, b, i, j, k - 1) + FMul(Cell(a, i, k - 1), Cell(b, j, k - 1))

MatmulShapesAgree ==
    /\ Len(call.c.shape) = 2
    /\ Len(call.a.shape) = 2
    /\ Len(call.b.shape) = 2
    /\ call.c.shape[1] = call.a.shape[1]
    /\ call.c.shape[2] = call.b.shape[1]
    /\ call.a.shape[2] = call.b.shape[2]

\* C7: matmul_transb with A (m x k), B (n x k) and C (m x n) leaves
\* C[i, j] = beta * C_old[i, j] + alpha * sum over l of A[i, l] * B[j, l]
\* in every cell, each cell written once; the call of test_matmul_transb
\* leaves C = [15, 34, 35, 81].
C7_MatmulCells ==
    (pc = "done" /\ call.fn = "matmul_transb" /\ MatmulShapesAgree) =>
        /\ ~out.panicked
        /\ \A i \in 0..(call.c.shape[1] - 1) :
           \A j \in 0..(call.c.shape[2] - 1) :
               /\ At(out.y, i * call.c.shape[2] + j)
                      = FMul(call.beta, Cell(call.c, i, j))
                        + FMul(call.alpha,
                               SumAB(call.a, call.b, i, j, call.a.shape[2]))
               /\ At(out.writes, i * call.c.shape[2] + j) = 1
        /\ call = MatmulTestCall =>
               out.y = <<15 * One, 34 * One, 35 * One, 81 * One>>

C7_Witness ==
    /\ pc = "done"
    /\ call = MatmulTestCall
    /\ ~out.panicked
    /\ out.y = <<15 * One, 34 * One, 35 * One, 81 * One>>

\* C9: rope on a rank-3 tensor writes, for every token t, head h and
\* i < head_dim / 2, the elements x[t, h, i] and x[t, h, i + head_dim / 2],
\* both computed from the values the two held before the call; every
\* element is written at most once, exactly once when head_dim is even; a
\* pair at absolute position 0, or with both values 0, keeps its values.
C9_RopePairs ==
    (pc = "done" /\ call.fn = "rope" /\ Len(call.y.shape) = 3) =>
        LET n_heads == call.y.shape[2]
            d == call.y.shape[3]
            half == d \div 2
            old == call.y.data
        IN  /\ ~out.panicked
            /\ \A t \in 0..(call.y.shape[1] - 1) :
               \A h \in 0..(n_heads - 1) :
               \A i \in 0..(half - 1) :
                   LET ia == t * n_heads * d + h * d + i
                       ib == ia + half
                       a == At(old, ia)
                       b == At(old, ib)
                       sc == SinCos(Freq(call.start_pos + t, call.theta, i, d))
                   IN  /\ At(out.y, ia) = FMul(a, sc.cos) - FMul(b, sc.sin)
                       /\ At(out.y, ib) = FMul(b, sc.cos) + FMul(a, sc.sin)
                       /\ (call.start_pos + t = 0 \/ (a = 0 /\ b = 0)) =>
                              At(out.y, ia) = a /\ At(out.y, ib) = b
            /\ \A e \in Cells(old) :
                   /\ At(out.writes, e) <= 1
                   /\ d % 2 = 0 => At(out.writes, e) = 1
                   /\ At(out.writes, e) = 0 => At(out.y, e) = At(old, e)

C9_Witness ==
    /\ pc = "done"
    /\ call.fn = "rope"
    /\ call.y.shape = <<2, 2, 4>>
    /\ call.y.data = Ramp(16, 1, 0)
    /\ call.start_pos = 1
    /\ call.theta = 4 * One
    /\ ~out.panicked
    /\ \A e \in Cells(out.y) :
           At(out.y, e) # At(call.y.data, e) /\ At(out.writes, e) = 1

\* The softmax of the sequence p, element j (0-based).
RECURSIVE MaxOf(_)
MaxOf(p) == IF Len(p) = 1 THEN p[1] ELSE Max(p[1], MaxOf(Tail(p)))

RECURSIVE SumExp(_, _)
SumExp(p, max) ==
    IF p = <<>> THEN 0 ELSE Exp(p[1] - max) + SumExp(Tail(p), max)

SoftmaxOf(p, j) == FDiv(Exp(At(p, j) - MaxOf(p)), SumExp(p, MaxOf(p)))

\* A finished masked_softmax call on a tensor of rank >= 2.
SoftmaxDone ==
    pc = "done" /\ call.fn = "masked_softmax" /\ Len(call.y.shape) >= 2

\* P(offset, boundary, j) for every row (by its offset and boundary) and
\* column j of the call's tensor.
ForAllCells(P(_, _, _)) ==
    LET seq_len == call.y.shape[Len(call.y.shape) - 1]
        total == call.y.shape[Len(call.y.shape)]
    IN  \A b \in 0..(Size(call.y) \div (seq_len * total) - 1) :
        \A i \in 0..(seq_len - 1) :
        \A j \in 0..(total - 1) :
            P(b * seq_len * total + i * total, total - seq_len + i + 1, j)

\* The element is the softmax of the visible prefix of its row.
Visible(offset, boundary, j) ==
    j < boundary =>
        /\ At(out.y, offset + j)
               = SoftmaxOf(SubSeq(call.y.data, offset + 1, offset + boundary),
                           j)
        /\ At(out.writes, offset + j) = 2

Masked(offset, boundary, j) ==
    j >= boundary =>
        At(out.y, offset + j) = 0 /\ At(out.writes, offset + j) = 1

ZeroIffMasked(offset, boundary, j) ==
    At(out.y, offset + j) = 0 <=> j >= boundary

ZeroOnlyByUnderflow(offset, boundary, j) ==
    (j < boundary /\ At(out.y, offset + j) = 0) =>
        Exp(At(call.y.data, offset + j)
            - MaxOf(SubSeq(call.y.data, offset + 1, offset + boundary))) = 0

RECURSIVE RowSquares(_, _, _)
RowSquares(x, r, c) ==
    IF c = 0 THEN 0
    ELSE RowSquares(x, r, c - 1)
         + At(x.data, r * x.shape[Len(x.shape)] + c - 1)
           * At(x.data, r * x.shape[Len(x.shape)] + c - 1)

RowRms(x, r, epsilon) ==
    LET n == x.shape[Len(x.shape)]
    IN  Sqrt2(RowSquares(x, r, n) \div n + epsilon)

Abs(v) == IF v < 0 THEN 0 - v ELSE v

\* C2: rms_norm accepts a weight whose size is the last dimension of x and
\* normalises each row of x by that row's own root-mean-square before
\* scaling by w; the call of test_rms_norm returns and leaves y within 1e-3
\* of [0.6324554, 2.5298216, 0.8485281, 2.2627416].
C2_RmsNormPerRow ==
    (/\ pc = "done"
     /\ call.fn = "rms_norm"
     /\ call.y.shape = call.x.shape
     /\ Size(call.w) = call.x.shape[Len(call.x.shape)]) =>
        LET n == call.x.shape[Len(call.x.shape)]
        IN  /\ ~out.panicked
            /\ \A e \in Cells(call.x.data) :
                   At(out.y, e)
                       = FDiv(FMul(At(call.w.data, e % n), At(call.x.data, e)),
                              RowRms(call.x, e \div n, call.epsilon))
            /\ call = RmsTestCall =>
                   \A e \in Cells(out.y) :
                       Abs(At(out.y, e) - At(<<632, 2530, 849, 2263>>, e)) <= 1

\* The kernels that write a tensor, and the tensor each writes.
Writers ==
    {"gather", "rope", "masked_softmax", "rms_norm", "swiglu", "matmul_transb"}

Output == IF call.fn = "matmul_transb" THEN call.c ELSE call.y

\* The rank, size and shape relations each kernel requires.
Precondition ==
    CASE call.fn = "gather" ->
             /\ Len(call.table.shape) = 2
             /\ Size(call.y) = Size(call.indices) * call.table.shape[2]
      [] call.fn = "rope" -> Len(call.y.shape) = 3
      [] call.fn = "masked_softmax" -> Len(call.y.shape) >= 2
      [] call.fn = "rms_norm" ->
             Size(call.y) = Size(call.x) /\ Size(call.x) = Size(call.w)
      [] call.fn = "swiglu" -> Size(call.y) = Size(call.x)
      [] call.fn = "dot" -> Size(call.y) = Size(call.x)
      [] call.fn = "matmul_transb" -> MatmulShapesAgree
      [] call.fn = "random_sample" ->
             /\ call.x.shape # <<>>
             /\ call.x.shape[Len(call.x.shape)] = Size(call.x)

=============================================================================
